---- MODULE Spec2Model ----
(***************************************************************************)
(* A model of target-salesforce-v3: the request layer of SalesforceV3Sink  *)
(* (_request under backoff, validate_response, check_salesforce_limits),   *)
(* the sinks' upsert_record and process_record, the schema cache and the   *)
(* custom field provisioner, the resolver of preprocess_record, the        *)
(* picklist and validation helpers, ContactsSink over a sequence of        *)
(* records with its campaigns and topics, and the phone slots.             *)
(*                                                                         *)
(* Each group of claims is checked under a specification of its own; the   *)
(* variables a specification does not use keep their initial value.        *)
(***************************************************************************)
EXTENDS Integers, Sequences, FiniteSets, TLC

VARIABLES
    call,       \* the request_api call under way: method, path, sink, payload
    stack,      \* the nested _request invocations: payload and try number
    attempts,   \* HTTP requests sent for this call (saturating)
    strips,     \* whether a field-stripping re-issue happened in this call
    sent,       \* the last HTTP request sent
    lastResp,   \* the last HTTP response received
    result      \* how request_api ended: pending, returned or raised

VARIABLES
    sink,           \* the sink class of the stream
    pc,             \* where the framework is with the current record
    nrec,           \* records fed to the sink so far
    mapping,        \* what preprocess_record returned for the current record
    known,          \* the current record's hash is already in the run state
    cached,         \* sf_fields_description is memoized for this sink
    reqs,           \* the write requests issued for the current record
    bookmarks,      \* latest_state["bookmarks"][name]: the outcome entries
    summary,        \* latest_state["summary"][name]: the counters
    read_only_fields, \* TargetSalesforceV3.read_only_fields, by stream name
    quotaSeen,      \* a request_api call raised the quota exception
    reqAfterQuota,  \* a request was issued after that
    lastErr         \* the error raised while handling the current record

VARIABLES
    csink,      \* the sink class whose schema reads are followed
    cpc,        \* whether the run goes on
    crec,       \* records preprocessed so far
    create_custom_fields, \* config["create_custom_fields"]
    memo,       \* the functools.cache entry of sf_fields_description
    fieldsProp, \* ContactsSink._fields (cached_property) is filled
    remote,     \* the custom fields the object type has in Salesforce
    created,    \* the custom fields add_custom_field created in this run
    fetches,    \* describe calls answered since the last cache_clear()
    staleUse    \* a read was served a description older than a created field

VARIABLES
    rsink,      \* the sink class that resolves
    rcfg,       \* the lookup configuration
    rrec,       \* which identifying values the record carries
    rremote,    \* which searches would find an object in Salesforce
    rpc,        \* ready, then resolved
    queried,    \* the searches preprocess_record sent
    decided     \* the method that decided the resolution, or "create"

VARIABLES
    lsink,      \* the sink class that looks the record up
    lcfg,       \* lookup fields, lookup_method, lookup_by_email, only_upsert_empty_fields
    lrec,       \* the record: its identifying values and its data fields
    lrem,       \* the existing remote object: which searches find it, its populated fields
    lpc,        \* ready, then written
    lout        \* the payload, the searches sent and the first write of upsert_record

VARIABLES
    pcand,      \* the candidate value handed to get_pickable
    plabels,    \* the active labels of the picklist field, in schema order
    phas,       \* the field is among the description's pickable fields
    pdefault,   \* the default argument
    pfirst,     \* the select_first argument
    pcreate,    \* the field is creatable
    ppc,        \* ready, then done or raised
    pres,       \* what get_pickable returned
    ppayload    \* what validate_output returned for the mapping

VARIABLES
    vsink,      \* the sink whose preprocess_record validates the mapping
    vmap,       \* the mapping built from the record
    vcreate,    \* fields["createable"] of the description
    vext,       \* the name of the record's external id, or None
    vpc,        \* ready, validated, revalidated
    vin,        \* the mapping handed to validate_output
    vfirst,     \* what validate_output made of it
    vsecond,    \* what validate_output makes of its own result
    vhanded,    \* a payload is handed to upsert_record
    vpayload    \* that payload

VARIABLES
    campaigns,      \* ContactsSink.campaigns; the empty list stands for None too
    topics,         \* ContactsSink.topics, likewise
    contact_type,   \* ContactsSink.contact_type
    descOf,         \* the object type whose description sf_fields_description memoized
    kpc,            \* ready, mapped, done or aborted
    kn,             \* contact records fed to the sink so far
    krec,           \* the current contact record
    kdesc,          \* the object type of the description preprocess_record used
    kmap,           \* the mapping preprocess_record returned
    kreqs,          \* the requests upsert_record sent for the current record
    kout            \* the outcome of the current record

VARIABLES
    hsink,      \* the sink that maps the phone numbers
    hphones,    \* record["phone_numbers"]: the type of each phone, in order
    hpc,        \* ready, then done
    hmap        \* the phone slots of the mapping, or the exception raised

reqVars == <<call, stack, attempts, strips, sent, lastResp, result>>

runVars == <<sink, pc, nrec, mapping, known, cached, reqs, bookmarks, summary,
             read_only_fields, quotaSeen, reqAfterQuota, lastErr>>

cacheVars == <<csink, cpc, crec, create_custom_fields, memo, fieldsProp, remote, created,
               fetches, staleUse>>

resVars == <<rsink, rcfg, rrec, rremote, rpc, queried, decided>>

lookVars == <<lsink, lcfg, lrec, lrem, lpc, lout>>

pickVars == <<pcand, plabels, phas, pdefault, pfirst, pcreate, ppc, pres, ppayload>>

valVars == <<vsink, vmap, vcreate, vext, vpc, vin, vfirst, vsecond, vhanded, vpayload>>

conVars == <<campaigns, topics, contact_type, descOf, kpc, kn, krec, kdesc, kmap, kreqs, kout>>

phoneVars == <<hsink, hphones, hpc, hmap>>

vars == <<reqVars, runVars, cacheVars, resVars, lookVars, pickVars, valVars, conVars, phoneVars>>

(***************************************************************************)
(* Program constants and model bounds                                      *)
(***************************************************************************)

\* backoff.on_exception(..., max_tries=5, ...)
max_tries == 5

\* self.config.get("quota_percent_total", 80)
quota_percent_total == 80

\* The interpreter's recursion limit, counted in nested _request calls: the
\* code itself puts no bound on the recursion of line 143.
MaxDepth == 3

None == "None"

Range(f) == {f[i] : i \in DOMAIN f}

(***************************************************************************)
(* HTTP responses                                                          *)
(***************************************************************************)

\* Field names of a request payload, and a name no payload carries.
PayloadFields == {"Foo", "Bar"}

NamedFieldSets == {{"Foo"}, {"Qux"}, {"Foo", "Bar"}, {}}

\* The Sforce-Limit-Info header: "api-usage=<used>/<allotted>", or a text the
\* pattern ^api-usage=(\d+)/(\d+)$ does not match (match = FALSE).
NoMatchHeader == [match |-> FALSE, used |-> 0, allotted |-> 1]

UsageHeaders ==
    {[match |-> TRUE, used |-> 50, allotted |-> 100],
     [match |-> TRUE, used |-> 80, allotted |-> 100],
     [match |-> TRUE, used |-> 85, allotted |-> 100],
     NoMatchHeader}

\* Bodies: what response.text / response.json() hold.
\*   "id"             {"id": ...}
\*   "empty"          no content
\*   "INVALID_FIELD"  [{"errorCode": "INVALID_FIELD_FOR_INSERT_UPDATE", "fields": [...]}]
\*   "INVALID_FIELD_NOFIELDS"  the same error object without a "fields" key
\*   "ALREADY_MEMBER" a text holding "Already a campaign member."
\*   "NOT_FOUND"      [{"errorCode":"NOT_FOUND","message":"The requested resource does not exist"}]
\*   "NO_COLUMN"      [{"message":"No such column 'HasOptedOutOfEmail' on sobject of type ...
\*   "OTHER_ERROR"    any other JSON error list
StatusBodies ==
    {<<200, "id">>, <<204, "empty">>,
     <<400, "INVALID_FIELD">>, <<400, "INVALID_FIELD_NOFIELDS">>,
     <<400, "ALREADY_MEMBER">>, <<404, "NOT_FOUND">>, <<400, "NO_COLUMN">>,
     <<400, "OTHER_ERROR">>, <<403, "INVALID_FIELD">>,
     <<429, "OTHER_ERROR">>, <<503, "OTHER_ERROR">>}

\* Only an INVALID_FIELD error names fields.
WellFormed(r) == r.body # "INVALID_FIELD" => r.fields = {}

Responses ==
    {r \in [status : {sb[1] : sb \in StatusBodies}, body : {sb[2] : sb \in StatusBodies},
            fields : NamedFieldSets, usage : UsageHeaders] :
        <<r.status, r.body>> \in StatusBodies /\ WellFormed(r)}

\* What the model remembers of the last response (its usage header is consumed
\* by check_salesforce_limits and not kept).
Seen(r) == [status |-> r.status, body |-> r.body, fields |-> r.fields]

NoResponse == [status |-> 0, body |-> "empty", fields |-> {}]

(***************************************************************************)
(* The request layer: SalesforceV3Sink._request and request_api            *)
(***************************************************************************)

Methods == {"PATCH", "POST"}

\* The sink classes, by the validate_response they use.
ValidateKinds == {"Base", "Contacts"}

Pending == [kind |-> "pending", exc |-> None, text |-> None]

Returned == [kind |-> "returned", exc |-> None, text |-> None]

Raised(e, t) == [kind |-> "raised", exc |-> e, text |-> t]

\* validate_response with the client errors starting above 400.
ValidateBase_From401(r) ==
    IF r.status = 429 \/ (r.status >= 500 /\ r.status < 600) THEN "RetriableAPIError"
    ELSE IF r.status > 400 /\ r.status < 500 THEN "FatalAPIError"
    ELSE "ok"

\* SalesforceV3Sink.validate_response: what it does with a response.
ValidateBase(r) ==
    IF r.status = 429 \/ (r.status >= 500 /\ r.status < 600) THEN "RetriableAPIError"
    ELSE IF r.status >= 400 /\ r.status < 500 THEN "FatalAPIError"
    ELSE "ok"

\* ContactsSink.validate_response: three 4xx texts are not fatal. The third
\* calls update_field_permissions(profile=..., sobject_type=..., field_name=...),
\* whose signature is (permission_set_id, sobject_type, field_name): a TypeError
\* before the RetriableAPIError of the next line.
ValidateContacts(r) ==
    IF r.status = 429 \/ (r.status >= 500 /\ r.status < 600) THEN "RetriableAPIError"
    ELSE IF r.status >= 400 /\ r.status < 500 THEN
        IF r.body = "ALREADY_MEMBER" THEN "ok"
        ELSE IF r.body = "NOT_FOUND" THEN "ok"
        ELSE IF r.body = "NO_COLUMN" THEN "TypeError"
        ELSE "FatalAPIError"
    ELSE "ok"

validate_response(kind, r) ==
    IF kind = "Contacts" THEN ValidateContacts(r) ELSE ValidateBase(r)

\* check_salesforce_limits: percent_used_from_total > quota_percent_total.
ExceedsQuota(u) ==
    u.match /\ u.used * 100 > quota_percent_total * u.allotted

check_salesforce_limits(r) ==
    IF ExceedsQuota(r.usage) THEN "TargetSalesforceQuotaExceededException" ELSE "ok"

\* A payload filtered with "if k in" for "if k not in".
StripFields_Inverted(p, F) == [k \in (DOMAIN p) \cap F |-> p[k]]

\* {k: v for k, v in request_data.items() if k not in error.get("fields")}
StripFields(p, F) == [k \in (DOMAIN p) \ F |-> p[k]]

\* _request, lines 138-142: the PATCH answer that is stripped and re-issued.
IsStripCase(method, r) ==
    /\ method = "PATCH"
    /\ r.status = 400
    /\ r.body \in {"INVALID_FIELD", "INVALID_FIELD_NOFIELDS"}

\* backoff.on_exception: a RetriableAPIError leaving the body of the innermost
\* _request is retried there while tries < max_tries, and otherwise re-raised
\* into the body of the enclosing _request, whose decorator catches it in turn.
RECURSIVE Unwind_OneMore(_)
Unwind_OneMore(s) ==
    IF s = <<>> THEN <<>>
    ELSE IF s[Len(s)].tries <= max_tries
         THEN [s EXCEPT ![Len(s)].tries = @ + 1]
         ELSE Unwind_OneMore(SubSeq(s, 1, Len(s) - 1))

\* backoff that never gives up.
Unwind_Forever(s) == s

RECURSIVE Unwind(_)
Unwind(s) ==
    IF s = <<>> THEN <<>>
    ELSE IF s[Len(s)].tries < max_tries
         THEN [s EXCEPT ![Len(s)].tries = @ + 1]
         ELSE Unwind(SubSeq(s, 1, Len(s) - 1))

Min(a, b) == IF a < b THEN a ELSE b

\* One HTTP attempt of _request (lines 126-148) and what request_api (150-157)
\* makes of it when _request returns.
HttpAttempt(r) ==
    /\ result.kind = "pending"
    /\ LET top == stack[Len(stack)] IN
       /\ sent' = [method |-> call.method, path |-> call.path, payload |-> top.payload]
       /\ lastResp' = Seen(r)
       /\ attempts' = Min(attempts + 1, max_tries + 1)
       /\ IF IsStripCase(call.method, r) THEN
             IF r.body = "INVALID_FIELD_NOFIELDS" /\ DOMAIN top.payload # {} THEN
                 \* k not in None
                 /\ result' = Raised("TypeError", None)
                 /\ UNCHANGED <<stack, strips>>
             ELSE IF Len(stack) < MaxDepth THEN
                 /\ stack' = Append(stack, [payload |-> StripFields(top.payload, r.fields),
                                            tries |-> 1])
                 /\ strips' = TRUE
                 /\ UNCHANGED result
             ELSE
                 /\ result' = Raised("RecursionError", None)
                 /\ UNCHANGED <<stack, strips>>
          ELSE LET v == validate_response(call.sink, r) IN
             IF v = "RetriableAPIError" THEN
                 /\ stack' = Unwind(stack)
                 /\ result' = IF Unwind(stack) = <<>>
                              THEN Raised("RetriableAPIError", None) ELSE result
                 /\ UNCHANGED strips
             ELSE IF v = "ok" THEN
                 /\ result' = IF check_salesforce_limits(r) = "ok" THEN Returned
                              ELSE Raised(check_salesforce_limits(r), None)
                 /\ UNCHANGED <<stack, strips>>
             ELSE
                 /\ result' = Raised(v, IF v = "FatalAPIError" THEN r.body ELSE None)
                 /\ UNCHANGED <<stack, strips>>
    /\ UNCHANGED call

Payloads == {[k \in D |-> k] : D \in {PayloadFields, {"Bar"}, {}}}

ReqCall ==
    /\ call \in [method : Methods, path : {"sobjects/Contact/Email/a@x.com"},
                 sink : ValidateKinds, payload : Payloads]
    /\ stack = <<[payload |-> call.payload, tries |-> 1]>>
    /\ attempts = 0
    /\ strips = FALSE
    /\ sent = [method |-> None, path |-> None, payload |-> << >>]
    /\ lastResp = NoResponse
    /\ result = Pending

(***************************************************************************)
(* The sinks: preprocess_record, upsert_record, process_record             *)
(***************************************************************************)

\* Records fed to one sink in a run of the model.
MaxRecords == 2

\* "Activities" stands for the sinks that keep SalesforceV3Sink.upsert_record
\* and whose preprocess_record has no try/except (ActivitiesSink,
\* CampaignMemberSink, CompanySink, RecurringDonationsSink).
Sinks == {"Activities", "Deals", "Contacts", "Campaign", "Fallback"}

Endpoint(k) ==
    CASE k = "Activities" -> "sobjects/Task"
      [] k = "Deals" -> "sobjects/Opportunity"
      [] k = "Contacts" -> "sobjects/Contact"
      [] k = "Leads" -> "sobjects/Lead"
      [] k = "Campaign" -> "sobjects/Campaign"
      [] k = "Fallback" -> "sobjects/Account"

\* The explicit remote id of a record, the value of its external id field, and
\* the id the remote returns in a response body.
IdVal == "001A"

ExtVal == "E1"

NewId == "003xx"

\* fields["external_ids"] of the object's description.
ExternalIds == {"Ext__c"}

\* The fields an INVALID_FIELD_FOR_INSERT_UPDATE answer to a create names.
RejectedFields == {"Other"}

\* The streams of the run that fall to FallbackSink; the sink of the model
\* is the one of the stream "accounts".
Streams == {"accounts", "orders"}

stream_name == "accounts"

RememberReadOnly_Forgets(ro, stream, F) == ro

\* FallbackSink.upsert_record 1172-1174: the fields are appended to the
\* list of the stream.
RememberReadOnly(ro, stream, F) == [ro EXCEPT ![stream] = @ \cup F]

\* FallbackSink.preprocess_record 1069-1071: record.pop(field, None).
StripReadOnly(fields, ro, stream) == fields \ ro[stream]

\* What a request_api call does, as its caller sees it: it returns a response
\* whose body is a JSON object with an id ("id"), a 204 with no body ("204"),
\* a JSON list ("list": a 4xx that ContactsSink.validate_response lets through),
\* or it raises (a RetriableAPIError that outlives its retries reaches the
\* caller the way a FatalAPIError does).
Raises == {"FatalAPIError", "FatalInvalidField", "TargetSalesforceQuotaExceededException"}

Quota == "TargetSalesforceQuotaExceededException"

IsRaise(o) == o \in Raises

\* str(e) of a FatalAPIError holds INVALID_FIELD_FOR_INSERT_UPDATE or not.
ExcName(o) == IF o = "FatalInvalidField" THEN "FatalAPIError" ELSE o

Outcomes(k) == {"id", "204"} \cup Raises \cup (IF k = "Contacts" THEN {"list"} ELSE {})

AllOutcomes == {"id", "204", "list"} \cup Raises

\* A describe or query call: its body is read as JSON.
ReadOutcomes == {"id"} \cup Raises

Rq(m, p, o) == [method |-> m, path |-> p, out |-> o]

RqP(m, p, o, payload) == [method |-> m, path |-> p, out |-> o, payload |-> payload]

Ret(i, ok, x) == [kind |-> "return", id |-> i, success |-> ok, exc |-> None, externalId |-> x]

Exc(e) == [kind |-> "raise", id |-> None, success |-> FALSE, exc |-> ExcName(e), externalId |-> None]

\* The function fell off its end: process_record cannot unpack None.
NoneRet == [kind |-> "raise", id |-> None, success |-> FALSE, exc |-> "TypeError", externalId |-> None]

Done(t, r, c) == [trace |-> t, ret |-> r, cached |-> c, rejected |-> {}]

DescribePath(k) == <<Endpoint(k), "describe">>

\* sf_fields_description(): one GET on a cache miss, memoized when it returns.
DescribeTrace(k, c, oD) == IF c THEN <<>> ELSE <<Rq("GET", DescribePath(k), oD)>>

DescribeFails(c, oD) == ~c /\ IsRaise(oD)

\* SalesforceV3Sink.upsert_record.
UpsertBase(k, m, c, oD, oE, oI, oP) ==
    IF m = {} THEN Done(<<>>, Ret(None, TRUE, None), c)
    ELSE LET t0 == DescribeTrace(k, c, oD) IN
    IF DescribeFails(c, oD) THEN Done(t0, Exc(oD), c)
    ELSE LET ext == m \cap ExternalIds # {}
             t1 == IF ext THEN Append(t0, Rq("PATCH", <<Endpoint(k), "Ext__c", ExtVal>>, oE))
                   ELSE t0
         IN
    \* lines 170-183: any exception of the try is swallowed, a 204 has no JSON
    IF ext /\ oE = "id" THEN Done(t1, Ret(NewId, TRUE, None), TRUE)
    ELSE IF "Id" \in m THEN
        \* lines 185-193
        Done(Append(t1, Rq("PATCH", <<Endpoint(k), IdVal>>, oI)),
             IF IsRaise(oI) THEN Exc(oI) ELSE Ret(IdVal, TRUE, None), TRUE)
    ELSE
        \* lines 195-201
        Done(Append(t1, Rq("POST", <<Endpoint(k)>>, oP)),
             IF IsRaise(oP) THEN Exc(oP)
             ELSE IF oP = "id" THEN Ret(NewId, TRUE, None) ELSE NoneRet, TRUE)

\* CampaignSink.upsert_record.
UpsertCampaign(k, m, c, oD, oE, oI, oP) ==
    LET byId == "Id" \in m
        t0 == IF byId THEN <<>> ELSE DescribeTrace(k, c, oD)
        c1 == IF byId THEN c ELSE TRUE
    IN
    IF ~byId /\ DescribeFails(c, oD) THEN Done(t0, Exc(oD), c)
    ELSE LET field == IF byId THEN "Id"
                      ELSE IF m \cap ExternalIds # {} THEN "Ext__c" ELSE None
             o == IF byId THEN oI ELSE oE
             t1 == IF field = None THEN t0
                   ELSE Append(t0, Rq("PATCH",
                            <<Endpoint(k), field, IF byId THEN IdVal ELSE ExtVal>>, o))
             \* line 787: record = update_record
             rec == m \ {field}
         IN
    IF field # None /\ o = "id" THEN Done(t1, Ret(NewId, TRUE, None), c1)
    ELSE IF "Name" \notin rec THEN Done(t1, Exc("FatalAPIError"), c1)
    ELSE Done(Append(t1, Rq("POST", <<Endpoint(k)>>, oP)),
              IF IsRaise(oP) THEN Exc(oP)
              ELSE IF oP = "id" THEN Ret(NewId, TRUE, None) ELSE Exc("JSONDecodeError"), c1)

\* What response.json().get("id") raises on a body that is no JSON object.
JsonGetFails(o) == IF o = "204" THEN "JSONDecodeError" ELSE "AttributeError"

\* ContactsSink.upsert_record, for a record without campaigns and tags.
UpsertContacts(k, m, c, oD, oE, oI, oP) ==
    LET byId == "Id" \in m
        t0 == IF byId THEN <<>> ELSE DescribeTrace(k, c, oD)
        c1 == IF byId THEN c ELSE TRUE
    IN
    IF ~byId /\ DescribeFails(c, oD) THEN Done(t0, Exc(oD), c)
    ELSE LET field == IF byId THEN "Id"
                      ELSE IF m \cap ExternalIds # {} THEN "Ext__c" ELSE None
             o == IF byId THEN oI ELSE oE
             val == IF byId THEN IdVal ELSE ExtVal
         IN
    IF field # None THEN
        IF m \ {field} = {} THEN Done(t0, Ret(val, TRUE, None), c1)
        ELSE Done(Append(t0, Rq("PATCH", <<Endpoint(k), field, val>>, o)),
                  IF IsRaise(o) THEN Exc(o)
                  ELSE IF o = "id" THEN Ret(NewId, TRUE, None) ELSE Exc(JsonGetFails(o)), c1)
    ELSE IF m = {} THEN Done(t0, NoneRet, c1)
    ELSE Done(Append(t0, Rq("POST", <<Endpoint(k)>>, oP)),
              IF IsRaise(oP) THEN Exc(oP)
              ELSE IF oP = "id" THEN Ret(NewId, TRUE, None) ELSE Exc(JsonGetFails(oP)), c1)

\* FallbackSink.upsert_record (the stream is not ContentVersion). m is the
\* record with its object_type; {} is the record of an object not found.
UpsertFallback(k, m, c, oD, oE, oI, oP, oP2) ==
    IF m = {} THEN Done(<<>>, Ret(None, FALSE, None), c)
    ELSE IF m = {"object_type"} THEN Done(<<>>, NoneRet, c)
    ELSE LET t0 == DescribeTrace(k, c, oD) IN
    IF DescribeFails(c, oD) THEN Done(t0, Exc(oD), c)
    ELSE LET ext == m \cap ExternalIds # {}
             x == IF ext THEN ExtVal ELSE None
             byId == "Id" \in m
             \* record, after object_type and Id were popped
             record == m \ {"object_type", "Id"}
             t1 == IF byId THEN Append(t0, RqP("PATCH", <<Endpoint(k), IdVal>>, oI, record))
                   ELSE t0
         IN
    \* lines 1127-1141: the exception of a failed PATCH is logged and dropped
    IF byId /\ oI = "204" THEN Done(t1, Ret(IdVal, TRUE, x), TRUE)
    ELSE IF byId /\ oI = "id" THEN Done(t1, Ret(NewId, TRUE, x), TRUE)
    ELSE LET t2 == IF ext THEN Append(t1, RqP("PATCH", <<Endpoint(k), "Ext__c", ExtVal>>, oE,
                                              record \ {"Ext__c"}))
                   ELSE t1
         IN
    \* lines 1143-1153
    IF ext /\ oE = "id" THEN Done(t2, Ret(NewId, TRUE, x), TRUE)
    ELSE LET t3 == Append(t2, RqP("POST", <<Endpoint(k)>>, oP, record)) IN
    \* lines 1155-1186
    IF oP = "id" THEN Done(t3, Ret(NewId, TRUE, x), TRUE)
    ELSE IF oP = "FatalInvalidField" THEN
        [trace |-> Append(t3, RqP("POST", <<Endpoint(k)>>, oP2, record \ RejectedFields)),
         ret |-> IF IsRaise(oP2) THEN Exc(oP2)
                 ELSE IF oP2 = "id" THEN Ret(NewId, TRUE, x) ELSE Exc("JSONDecodeError"),
         cached |-> TRUE,
         rejected |-> RejectedFields]
    ELSE Done(t3, IF IsRaise(oP) THEN Exc(oP) ELSE Exc("JSONDecodeError"), TRUE)

\* upsert_record of the sink class.
Upsert(k, m, c, oD, oE, oI, oP, oP2) ==
    CASE k = "Contacts" -> UpsertContacts(k, m, c, oD, oE, oI, oP)
      [] k = "Campaign" -> UpsertCampaign(k, m, c, oD, oE, oI, oP)
      [] k = "Fallback" -> UpsertFallback(k, m, c, oD, oE, oI, oP, oP2)
      [] OTHER -> UpsertBase(k, m, c, oD, oE, oI, oP)

(***************************************************************************)
(* The framework feeds one record at a time: preprocess_record, then       *)
(* process_record. An exception leaving preprocess_record is not handled   *)
(* by the sink and ends the run.                                           *)
(***************************************************************************)

InputRecords == [id : BOOLEAN, ext : BOOLEAN, name : BOOLEAN, other : BOOLEAN,
                 known : BOOLEAN]

\* The payload preprocess_record builds from a record.
FieldsOf(rec) ==
    (IF rec.id THEN {"Id"} ELSE {}) \cup (IF rec.ext THEN {"Ext__c"} ELSE {})
        \cup (IF rec.name THEN {"Name"} ELSE {}) \cup (IF rec.other THEN {"Other"} ELSE {})

\* Whether preprocess_record sends a request for this record: the describe of
\* get_pickable / validate_output on a cache miss, the lookup queries of the
\* sink (DealsSink 477-490, CampaignSink 718-729, ContactsSink 230-241), the
\* object list of FallbackSink (976).
PreprocessSends(k, rec, c) ==
    CASE k = "Fallback" -> TRUE
      [] k = "Deals" -> TRUE
      [] k = "Campaign" -> ~rec.id \/ ~c
      [] k = "Contacts" -> ~rec.id \/ ~c
      [] OTHER -> ~c

\* preprocess_record memoizes the description through get_pickable or
\* validate_output; FallbackSink reads get_fields_for_object instead.
PreprocessCaches(k) == k # "Fallback"

NoErr == [phase |-> None, exc |-> None]

\* "invalid": the deal lacks a title, a stage or a close date (DealsSink
\* 449-457, before any request).
PreprocessOutcomes == ReadOutcomes \cup {"notfound", "invalid"}

\* preprocess_record of the sink class, for an outcome o of its requests
\* ("id": all of them returned; "notfound": FallbackSink finds no such object).
PreprocessRecord(rec, o) ==
    /\ pc = "ready"
    /\ nrec < MaxRecords
    /\ o \in PreprocessOutcomes
    /\ (o \notin {"id", "invalid"} => PreprocessSends(sink, rec, cached))
    /\ (o = "notfound" => sink = "Fallback")
    /\ (o = "invalid" => sink = "Deals")
    /\ nrec' = nrec + 1
    /\ known' = rec.known
    /\ reqs' = <<>>
    /\ quotaSeen' = (quotaSeen \/ o = Quota)
    /\ reqAfterQuota' = (reqAfterQuota
                             \/ (quotaSeen /\ o # "invalid" /\ PreprocessSends(sink, rec, cached)))
    /\ IF IsRaise(o) \/ o = "invalid" THEN
          /\ lastErr' = [phase |-> "preprocess",
                         exc |-> IF o = "invalid" THEN "InvalidDealRecord" ELSE ExcName(o)]
          /\ UNCHANGED cached
          /\ IF sink = "Deals"
             THEN \* DealsSink.preprocess_record 545-546: return {"error": repr(exc)}
                  /\ mapping' = {"error"}
                  /\ pc' = "mapped"
             ELSE /\ mapping' = {}
                  /\ pc' = "aborted"
       ELSE
          /\ lastErr' = NoErr
          /\ pc' = "mapped"
          /\ cached' = (cached \/ PreprocessCaches(sink))
          /\ mapping' = IF sink = "Fallback"
                        THEN IF o = "notfound" THEN {}
                             ELSE StripReadOnly(FieldsOf(rec), read_only_fields, stream_name)
                                      \cup {"object_type"}
                        ELSE FieldsOf(rec)
    /\ UNCHANGED <<sink, bookmarks, summary, read_only_fields>>
    /\ UNCHANGED <<reqVars, cacheVars, resVars, lookVars, pickVars, valVars, conVars, phoneVars>>

QuotaIn(t) == \E i \in 1..Len(t) : t[i].out = Quota

RequestAfterQuotaIn(t) == \E i, j \in 1..Len(t) : i < j /\ t[i].out = Quota

Entry(ok, i, x, e, d) == [success |-> ok, id |-> i, externalId |-> x, error |-> e, existing |-> d]

Bump_Twice(s, f) == [s EXCEPT ![f] = @ + 2]

Bump(s, f) == [s EXCEPT ![f] = @ + 1]

CounterOf_IgnoresDuplicate(e) == IF ~e.success THEN "fail" ELSE "success"

\* update_state: the counter an outcome entry increments.
CounterOf(e) ==
    IF e.existing THEN "existing"
    ELSE IF ~e.success THEN "fail"
    ELSE "success"

Writes(t) == SelectSeq(t, LAMBDA q : q.method # "GET")

\* process_record: the duplicate check, upsert_record under try/except
\* Exception, and update_state.
ProcessRecord(oD, oE, oI, oP, oP2) ==
    /\ pc = "mapped"
    /\ pc' = "ready"
    /\ {oE, oI, oP, oP2} \subseteq Outcomes(sink)
    /\ IF known THEN
          \* lines 487-488
          /\ bookmarks' = Append(bookmarks, Entry(TRUE, IdVal, None, None, TRUE))
          /\ summary' = Bump(summary, CounterOf(Entry(TRUE, IdVal, None, None, TRUE)))
          /\ oD = "id" /\ oE = "id" /\ oI = "id" /\ oP = "id" /\ oP2 = "id"
          /\ UNCHANGED <<cached, reqs, read_only_fields, quotaSeen, reqAfterQuota, lastErr>>
       ELSE LET u == Upsert(sink, mapping, cached, oD, oE, oI, oP, oP2)
                e == Entry(u.ret.success, u.ret.id, u.ret.externalId, u.ret.exc, FALSE)
            IN
          \* an oracle that is not consulted is fixed
          /\ (cached => oD = "id")
          /\ ("Id" \notin mapping => oI = "id")
          /\ (mapping \cap ExternalIds = {} => oE = "id")
          /\ (sink # "Fallback" => oP2 = "id")
          /\ \A o \in {oD, oE, oI, oP, oP2} :
                o # "id" => \E i \in 1..Len(u.trace) : u.trace[i].out = o
          /\ bookmarks' = Append(bookmarks, e)
          /\ summary' = Bump(summary, CounterOf(e))
          /\ cached' = u.cached
          /\ reqs' = Writes(u.trace)
          /\ read_only_fields' = IF u.rejected = {} THEN read_only_fields
                                  ELSE RememberReadOnly(read_only_fields, stream_name, u.rejected)
          /\ quotaSeen' = (quotaSeen \/ QuotaIn(u.trace))
          /\ reqAfterQuota' = (reqAfterQuota \/ (quotaSeen /\ u.trace # <<>>)
                                  \/ RequestAfterQuotaIn(u.trace))
          /\ lastErr' = IF u.ret.exc # None
                        THEN [phase |-> "upsert", exc |-> u.ret.exc]
                        ELSE lastErr
    /\ mapping' = {}
    /\ known' = FALSE
    /\ UNCHANGED <<sink, nrec>>
    /\ UNCHANGED <<reqVars, cacheVars, resVars, lookVars, pickVars, valVars, conVars, phoneVars>>

(***************************************************************************)
(* The schema cache and the custom field provisioner. One sink of a run    *)
(* maps records that carry custom fields; the description of its object    *)
(* type is memoized by functools.cache on sf_fields_description, and       *)
(* ContactsSink keeps a second copy in the cached_property _fields.        *)
(***************************************************************************)

MaxCacheRecords == 2

\* "Company" stands for the sinks whose preprocess_record calls
\* process_custom_fields outside any try (CompanySink, RecurringDonationsSink,
\* CampaignSink, CampaignMemberSink, ActivitiesSink).
CacheSinks == {"Deals", "Company", "Contacts", "Fallback"}

CustomFields == {"a__c", "b__c"}

\* record["custom_fields"], in the order of the list.
CustomFieldLists == {<<>>, <<"a__c">>, <<"b__c">>, <<"a__c", "b__c">>}

NoMemo == [has |-> FALSE, custom |-> {}]

Phases == {"soap", "permissions"}

\* Which creation fails, and where: in the SOAP createMetadata call (the field
\* is not created) or in the permission grants that follow it (it is).
NoFail == [field |-> None, phase |-> None]

Fails == {NoFail} \cup [field : CustomFields, phase : Phases]

\* The state a preprocess_record threads through its schema reads.
Thread(m, r, c, n, s) ==
    [memo |-> m, remote |-> r, created |-> c, fetches |-> n, stale |-> s,
     raised |-> FALSE, cleared |-> FALSE]

\* sf_fields_description(): served from the memo when there is one, else one
\* GET of the describe endpoint, memoized when it returns.
sf_fields_description(st, o) ==
    IF st.raised THEN st
    ELSE IF st.memo.has
         THEN [st EXCEPT !.stale = @ \/ ~(st.created \subseteq st.memo.custom)]
    ELSE IF o = "ok"
         THEN [st EXCEPT !.memo = [has |-> TRUE, custom |-> st.remote], !.fetches = @ + 1]
    ELSE [st EXCEPT !.raised = TRUE]

FailIndex(missing, fail) ==
    IF fail = NoFail THEN Len(missing) + 1
    ELSE CHOOSE i \in 1..Len(missing) : missing[i] = fail.field

\* process_custom_fields(record["custom_fields"]).
process_custom_fields(st, cfs, o, fail) ==
    IF st.raised \/ ~create_custom_fields THEN st
    ELSE LET r == sf_fields_description(st, o) IN
    IF r.raised THEN r
    ELSE LET missing == SelectSeq(cfs, LAMBDA f : f \notin r.memo.custom)
             k == FailIndex(missing, fail)
             made == {missing[i] : i \in 1..(k - 1)}
                        \cup (IF fail.phase = "permissions" THEN {fail.field} ELSE {})
         IN
    IF k <= Len(missing)
    THEN \* add_custom_field raised: line 362 is not reached
         [r EXCEPT !.remote = @ \cup made, !.created = @ \cup made, !.raised = TRUE]
    ELSE IF missing # <<>>
    THEN \* needs_to_refresh_fields_cache: cache_clear()
         [r EXCEPT !.remote = @ \cup made, !.created = @ \cup made,
                   !.memo = NoMemo, !.fetches = 0, !.cleared = TRUE]
    ELSE r

\* The fields process_custom_fields tries to create.
Missing(cfs, m) == SelectSeq(cfs, LAMBDA f : ~m.has \/ f \notin m.custom)

\* The schema reads of preprocess_record in DealsSink (get_pickable first) and
\* in the sinks "Company" stands for.
SchemaSteps(k, st, cfs, o1, fail, o2) ==
    LET a == IF k = "Deals" THEN sf_fields_description(st, o1) ELSE st
        b == IF cfs # <<>> THEN process_custom_fields(a, cfs, o1, fail) ELSE a
    IN sf_fields_description(b, IF b.cleared THEN o2 ELSE o1)

\* An oracle that no step consults is fixed.
OraclesUsed(k, cfs, o1, oF, fail, o2) ==
    /\ (memo.has => o1 = "ok")
    /\ (oF # "ok" => \/ k = "Fallback"
                     \/ k = "Contacts" /\ cfs # <<>> /\ ~fieldsProp /\ (memo.has \/ o1 = "ok"))
    /\ (fail # NoFail =>
            /\ k \in {"Deals", "Company"}
            /\ create_custom_fields
            /\ o1 = "ok"
            /\ \E i \in 1..Len(cfs) : cfs[i] = fail.field
            /\ (memo.has => fail.field \notin memo.custom)
            /\ (~memo.has => fail.field \notin remote))
    /\ (o2 # "ok" =>
            /\ k \in {"Deals", "Company"}
            /\ create_custom_fields
            /\ o1 = "ok"
            /\ fail = NoFail
            /\ Missing(cfs, IF memo.has THEN memo ELSE [has |-> TRUE, custom |-> remote]) # <<>>)

\* preprocess_record, as far as it reads the schema and provisions fields.
PreprocessSchema(cfs, o1, oF, fail, o2) ==
    /\ cpc = "ready"
    /\ crec < MaxCacheRecords
    /\ crec' = crec + 1
    /\ OraclesUsed(csink, cfs, o1, oF, fail, o2)
    /\ (csink = "Fallback" => cfs = <<>>)
    /\ LET st == Thread(memo, remote, created, fetches, staleUse) IN
       CASE csink = "Fallback" ->
              \* FallbackSink.get_fields_for_object: no memo
              /\ fetches' = IF oF = "ok" THEN fetches + 1 ELSE fetches
              /\ cpc' = IF oF = "ok" THEN "ready" ELSE "aborted"
              /\ UNCHANGED <<memo, fieldsProp, remote, created, staleUse>>
         [] csink = "Contacts" ->
              LET a == sf_fields_description(st, o1)
                  viaProp == ~a.raised /\ cfs # <<>> /\ ~fieldsProp /\ oF = "ok"
                  \* line 178 passes exclude_fields, which process_custom_fields
                  \* does not take: TypeError
                  z == IF cfs # <<>> THEN [a EXCEPT !.raised = TRUE]
                       ELSE sf_fields_description(a, o1)
              IN /\ memo' = z.memo
                 /\ fieldsProp' = (fieldsProp \/ viaProp)
                 /\ fetches' = z.fetches + (IF viaProp THEN 1 ELSE 0)
                 /\ staleUse' = z.stale
                 /\ cpc' = IF z.raised THEN "aborted" ELSE "ready"
                 /\ UNCHANGED <<remote, created>>
         [] OTHER ->
              LET z == SchemaSteps(csink, st, cfs, o1, fail, o2) IN
                 /\ memo' = z.memo
                 /\ remote' = z.remote
                 /\ created' = z.created
                 /\ fetches' = z.fetches
                 /\ staleUse' = z.stale
                 \* DealsSink.preprocess_record returns {"error": ...}
                 /\ cpc' = IF z.raised /\ csink # "Deals" THEN "aborted" ELSE "ready"
                 /\ UNCHANGED fieldsProp
    /\ UNCHANGED <<csink, create_custom_fields>>
    /\ UNCHANGED <<reqVars, runVars, resVars, lookVars, pickVars, valVars, conVars, phoneVars>>

(***************************************************************************)
(* The resolver: the part of preprocess_record that decides whether the    *)
(* record updates an existing remote object, and which one.                *)
(***************************************************************************)

ResolverSinks == {"Contacts", "Fallback"}

\* lookup: lookup_fields_dict names lookup fields for the object type;
\* by_email: the lookup_by_email flag (FallbackSink).
ResolverConfigs == [lookup : BOOLEAN, by_email : BOOLEAN]

\* What the record carries: an explicit id, a value for a configured lookup
\* field, a caller-supplied external id, an email.
ResolverRecords == [id : BOOLEAN, lookup_value : BOOLEAN, external_id : BOOLEAN, email : BOOLEAN]

\* Which searches find an object on the remote.
Remotes == [lookup : BOOLEAN, external_id : BOOLEAN, email : BOOLEAN]

Resolution(q, d) == [queried |-> q, decided |-> d]

\* Without a match preprocess_record leaves the record as it is, and
\* upsert_record goes by the Id, then by the external id field of the payload.
Unmatched(k, rec, rem, q) ==
    IF rec.id THEN Resolution(q, "id")
    ELSE IF k = "Fallback" /\ rec.external_id /\ rem.external_id
         THEN Resolution(q, "external_id")
    ELSE Resolution(q, "create")

\* ContactsSink.preprocess_record, lines 209-241.
ResolveContacts(cfg, rec, rem) ==
    IF rec.id THEN Resolution({}, "id")
    ELSE IF cfg.lookup
         THEN \* a filter is built from the lookup values; no object is looked up
              Resolution({}, "create")
    ELSE IF rec.external_id
         THEN Resolution({}, IF rem.external_id THEN "external_id" ELSE "create")
    ELSE IF rec.email
         THEN Resolution({"email"}, IF rem.email THEN "email" ELSE "create")
    ELSE Resolution({}, "create")

\* FallbackSink.preprocess_record, lines 1010-1062.
ResolveFallback(cfg, rec, rem) ==
    IF cfg.lookup
    THEN IF rec.lookup_value /\ rem.lookup
         THEN Resolution({"lookup"}, "lookup")
         ELSE Unmatched("Fallback", rec, rem, {"lookup"})
    ELSE IF cfg.by_email /\ rec.email
    THEN IF rem.email
         THEN Resolution({"email"}, "email")
         ELSE Unmatched("Fallback", rec, rem, {"email"})
    ELSE Unmatched("Fallback", rec, rem, {})

Resolve ==
    /\ rpc = "ready"
    /\ rpc' = "resolved"
    /\ LET r == IF rsink = "Contacts" THEN ResolveContacts(rcfg, rrec, rremote)
                ELSE ResolveFallback(rcfg, rrec, rremote)
       IN /\ queried' = r.queried
          /\ decided' = r.decided
    /\ UNCHANGED <<rsink, rcfg, rrec, rremote>>
    /\ UNCHANGED <<reqVars, runVars, cacheVars, lookVars, pickVars, valVars, conVars, phoneVars>>

(***************************************************************************)
(* Lookup, only_upsert_empty_fields and the write that follows: the record *)
(* as preprocess_record leaves it and the first request upsert_record      *)
(* sends for it.                                                           *)
(***************************************************************************)

LookupSinks == {"Contacts", "Fallback"}

\* The data fields of a record; both are the configured lookup fields when
\* lookup_fields_dict names any for the object type.
DataFields == {"Name", "Phone"}

LookupMethods == {"sequential", "all"}

LookupConfigs == [lookup : BOOLEAN, lookup_method : LookupMethods, by_email : BOOLEAN,
                  only_upsert_empty_fields : BOOLEAN]

LookupRecords == [id : BOOLEAN, external_id : BOOLEAN, email : BOOLEAN,
                  fields : SUBSET DataFields]

\* The object the record is about, as it exists in Salesforce: the searches
\* that find it and the data fields that hold a value in it.
LookupRemotes == [lookup : BOOLEAN, external_id : BOOLEAN, email : BOOLEAN,
                  populated : SUBSET DataFields]

\* The fields of the existing object that hold a value: its Id always, the
\* external id field when the object was found by it.
Populated(rem) ==
    rem.populated \cup {"Id"} \cup (IF rem.external_id THEN {"Ext__c"} ELSE {})

\* get_lookup_filter(lookup_values, lookup_method): the predicate over the
\* values it is given, joined by AND for "all" and by OR otherwise.
get_lookup_filter(lookup_values, method) ==
    [terms |-> lookup_values, join |-> IF method = "all" THEN "AND" ELSE "OR"]

\* map_only_empty_fields: the payload without the fields the queried object
\* has a value in, Id kept.
map_only_empty_fields(m, found, rem) ==
    IF found THEN {k \in m : k \notin Populated(rem) \/ k = "Id"} ELSE m

\* The first request of ContactsSink.upsert_record for payload m.
FirstWriteContacts(m) ==
    IF "Id" \in m THEN (IF m \ {"Id"} = {} THEN "none" ELSE "PATCH_ID")
    ELSE IF "Ext__c" \in m THEN (IF m \ {"Ext__c"} = {} THEN "none" ELSE "PATCH_EXT")
    ELSE IF m # {} THEN "POST"
    ELSE "none"

\* The first request of FallbackSink.upsert_record for payload m.
FirstWriteFallback(m) ==
    IF m = {} THEN "none"
    ELSE IF "Id" \in m THEN "PATCH_ID"
    ELSE IF "Ext__c" \in m THEN "PATCH_EXT"
    ELSE "POST"

Out(m, q, by, w, f) == [payload |-> m, queried |-> q, by |-> by, write |-> w, filter |-> f]

\* ContactsSink.preprocess_record lines 209-248 and the first request of
\* upsert_record. key is what lookup_field was built from.
LookupContacts(cfg, rec, rem) ==
    LET found_by_email == ~rec.id /\ ~cfg.lookup /\ ~rec.external_id /\ rec.email /\ rem.email
        key == IF rec.id THEN "id"
               ELSE IF cfg.lookup THEN (IF rec.fields # {} THEN "lookup" ELSE None)
               ELSE IF rec.external_id THEN "external_id"
               ELSE IF found_by_email THEN "email"
               ELSE None
        m1 == rec.fields
                \cup (IF key \in {"id", "email"} THEN {"Id"} ELSE {})
                \cup (IF key = "external_id" THEN {"Ext__c"} ELSE {})
        q1 == IF ~rec.id /\ ~cfg.lookup /\ ~rec.external_id /\ rec.email THEN {"email"} ELSE {}
        filters == cfg.only_upsert_empty_fields /\ key # None
        found == CASE key = "lookup" -> rem.lookup
                   [] key = "external_id" -> rem.external_id
                   [] OTHER -> TRUE
        m2 == IF filters THEN map_only_empty_fields(m1, found, rem) ELSE m1
        by == CASE key \in {"id", "email"} -> key
                [] key = "external_id" /\ rem.external_id -> "external_id"
                [] OTHER -> "create"
    IN Out(m2, q1 \cup (IF filters THEN {"filter"} ELSE {}), by, FirstWriteContacts(m2),
           IF key = "lookup" THEN get_lookup_filter(rec.fields, cfg.lookup_method) ELSE None)

\* FallbackSink.preprocess_record lines 1010-1072 and the first request of
\* upsert_record.
LookupFallback(cfg, rec, rem) ==
    LET m1 == rec.fields \cup (IF rec.id THEN {"Id"} ELSE {})
                  \cup (IF rec.external_id THEN {"Ext__c"} ELSE {})
        \* lookup_values has a key for every configured field: line 1024 never skips
        looks == cfg.lookup
        mails == ~looks /\ cfg.by_email /\ rec.email
        req == (looks /\ rem.lookup) \/ (mails /\ rem.email)
        \* get_record selects the record's fields and Id; the email search returns ids
        existing_record == IF looks THEN Populated(rem) \cap (m1 \cup {"Id"}) ELSE {"Id"}
        m2 == IF req
              THEN (IF cfg.only_upsert_empty_fields THEN m1 \ existing_record ELSE m1) \cup {"Id"}
              ELSE m1
        by == IF req THEN (IF looks THEN "lookup" ELSE "email")
              ELSE IF rec.id THEN "id"
              ELSE IF rec.external_id /\ rem.external_id THEN "external_id"
              ELSE "create"
    IN Out(m2, (IF looks THEN {"lookup"} ELSE {}) \cup (IF mails THEN {"email"} ELSE {}),
           by, FirstWriteFallback(m2),
           IF looks THEN get_lookup_filter(DataFields, cfg.lookup_method) ELSE None)

LookupAndWrite ==
    /\ lpc = "ready"
    /\ lpc' = "written"
    /\ lout' = IF lsink = "Contacts" THEN LookupContacts(lcfg, lrec, lrem)
               ELSE LookupFallback(lcfg, lrec, lrem)
    /\ UNCHANGED <<lsink, lcfg, lrec, lrem>>
    /\ UNCHANGED <<reqVars, runVars, cacheVars, resVars, pickVars, valVars, conVars, phoneVars>>

(***************************************************************************)
(* Values, clean_payload and validate_output; get_pickable.                *)
(* A string is a sequence of characters, so that the normalisation of      *)
(* get_pickable is computed and not assumed.                               *)
(***************************************************************************)

Str(w) == [str |-> w]

NoneValue == [none |-> TRUE]

Datetime(aware) == [datetime |-> aware]

Dict(f) == [dict |-> f]

clean_dict_items_KeepNone(d) == [k \in {x \in DOMAIN d : d[x] # Str(<<>>)} |-> d[k]]

\* clean_dict_items: v not in [None, ""].
clean_dict_items(d) == [k \in {x \in DOMAIN d : d[x] \notin {NoneValue, Str(<<>>)}} |-> d[k]]

\* strftime("%Y-%m-%dT%H:%M:%S%z"), with the colon put into the offset of an
\* aware datetime (lines 219-224).
FormatDatetime(aware) ==
    IF aware THEN Str(<<"2024-01-01T00:00:00", "+00:00">>) ELSE Str(<<"2024-01-01T00:00:00">>)

RECURSIVE clean_payload(_)
clean_payload(item) ==
    LET it == clean_dict_items(item) IN
    [k \in DOMAIN it |->
        IF "datetime" \in DOMAIN it[k] THEN FormatDatetime(it[k].datetime)
        ELSE IF "dict" \in DOMAIN it[k] THEN Dict(clean_payload(it[k].dict))
        ELSE it[k]]

\* The field names that end in "__c".
CustomNames == {"X__c", "Ext__c"}

validate_output_CreatableOnly(mapped, createable) ==
    LET m == clean_payload(mapped) IN
    IF createable = {} THEN [raised |-> TRUE, payload |-> << >>]
    ELSE [raised |-> FALSE, payload |-> [k \in {x \in DOMAIN m : x \in createable} |-> m[k]]]

\* validate_output(mapping) under a description whose fields["createable"]
\* is createable.
validate_output(mapped, createable) ==
    LET m == clean_payload(mapped) IN
    IF createable = {} THEN [raised |-> TRUE, payload |-> << >>]
    ELSE [raised |-> FALSE,
          payload |-> [k \in {x \in DOMAIN m : x \in CustomNames \/ x \in createable \cup {"Id"}}
                          |-> m[k]]]

\* re.sub(r'\W+', '', choice).lower(): the word characters are letters, digits
\* and the underscore.
WordChars == {"a", "b", "A", "_"}

Lower(ch) == IF ch = "A" THEN "a" ELSE ch

RECURSIVE Normalize(_)
Normalize(w) ==
    IF w = <<>> THEN <<>>
    ELSE IF Head(w) \in WordChars THEN <<Lower(Head(w))>> \o Normalize(Tail(w))
    ELSE Normalize(Tail(w))

Labels == {<<"a">>, <<"A">>, <<"b">>, <<"a", "b">>, <<"A", "b">>, <<"A", "-", "b">>, <<"-">>}

LabelLists == {<<>>} \cup {<<l>> : l \in Labels} \cup {<<l, k>> : l, k \in Labels}

Candidates == {NoneValue, Str(<<>>)} \cup {Str(w) : w \in Labels}

\* get_pickable(record_field, sf_field, default, select_first), lines 283-301.
get_pickable(record_field, has, labels, default, select_first) ==
    IF ~has THEN [raised |-> FALSE, value |-> default]
    ELSE LET valid_options == [i \in 1..Len(labels) |-> Str(Normalize(labels[i]))]
             matches == {i \in 1..Len(labels) : valid_options[i] = record_field}
         IN
    IF matches = {}
    THEN IF select_first
         THEN IF labels = <<>> THEN [raised |-> TRUE, value |-> NoneValue]
              ELSE [raised |-> FALSE, value |-> valid_options[1]]
         ELSE [raised |-> FALSE, value |-> default]
    ELSE \* nice_valid_options[valid_options.index(record_field)]
         [raised |-> FALSE,
          value |-> Str(labels[CHOOSE i \in matches : \A j \in matches : i <= j])]

\* A sink maps the picklist field "Type" next to a name and validates the
\* mapping (CompanySink.preprocess_record 566-616).
MapPicklist ==
    /\ ppc = "ready"
    /\ LET r == get_pickable(pcand, phas, plabels, pdefault, pfirst)
           v == validate_output([Name |-> Str(<<"a">>), Type |-> r.value],
                                {"Name"} \cup (IF pcreate THEN {"Type"} ELSE {}))
       IN /\ pres' = r
          /\ ppc' = IF r.raised THEN "raised" ELSE "done"
          /\ ppayload' = IF r.raised THEN << >> ELSE v.payload
    /\ UNCHANGED <<pcand, plabels, phas, pdefault, pfirst, pcreate>>
    /\ UNCHANGED <<reqVars, runVars, cacheVars, resVars, lookVars, valVars, conVars, phoneVars>>

(***************************************************************************)
(* The mapping of a record, its validation and the payload a sink hands to *)
(* upsert_record.                                                          *)
(***************************************************************************)

EmptyMap == [k \in {} |-> NoneValue]

Put(m, k, v) == [x \in DOMAIN m \cup {k} |-> IF x = k THEN v ELSE m[x]]

ValidateSinks == {"Contacts", "Deals"}

\* Name is a standard field, X__c a custom one, Bogus is in no description.
MappingKeys == {"Name", "Id", "X__c", "Bogus"}

MappingValues ==
    {NoneValue, Str(<<>>), Str(<<"a">>), Datetime(TRUE), Datetime(FALSE),
     Dict(EmptyMap), Dict([k \in {"Name"} |-> NoneValue]),
     Dict([k \in {"Name"} |-> Datetime(TRUE)])}

Mappings == UNION {[ks -> MappingValues] : ks \in SUBSET MappingKeys}

Createables == {{}, {"Name"}, {"Name", "Type"}}

\* The names a record may give its external id; LegacyKey is in no description.
ExternalIdNames == {None, "Ext__c", "LegacyKey"}

\* ContactsSink.preprocess_record: the mapping is validated, then the
\* external id is added under the name the record gives (207, 226-229).
\* NoCreatableFieldsException leaves the method.
PreprocessContacts ==
    /\ vpc = "ready"
    /\ vsink = "Contacts"
    /\ LET v == validate_output(vmap, vcreate) IN
       /\ vin' = vmap
       /\ vfirst' = v
       /\ vhanded' = ~v.raised
       /\ vpayload' = IF v.raised THEN EmptyMap
                      ELSE IF vext # None THEN Put(v.payload, vext, Str(<<"a">>))
                      ELSE v.payload
    /\ vpc' = "validated"
    /\ UNCHANGED <<vsink, vmap, vcreate, vext, vsecond>>
    /\ UNCHANGED <<reqVars, runVars, cacheVars, resVars, lookVars, pickVars, conVars, phoneVars>>

\* DealsSink.preprocess_record: the external id is added, then the mapping
\* is validated (533-538); an exception becomes the mapping {"error": ...}
\* (545-546).
PreprocessDeals ==
    /\ vpc = "ready"
    /\ vsink = "Deals"
    /\ LET m == IF vext # None THEN Put(vmap, vext, Str(<<"a">>)) ELSE vmap
           v == validate_output(m, vcreate)
       IN
       /\ vin' = m
       /\ vfirst' = v
       /\ vhanded' = TRUE
       /\ vpayload' = IF v.raised THEN [k \in {"error"} |-> Str(<<"NoCreatableFieldsException">>)]
                      ELSE v.payload
    /\ vpc' = "validated"
    /\ UNCHANGED <<vsink, vmap, vcreate, vext, vsecond>>
    /\ UNCHANGED <<reqVars, runVars, cacheVars, resVars, lookVars, pickVars, conVars, phoneVars>>

\* validate_output applied to its own result, under the same description.
Revalidate ==
    /\ vpc = "validated"
    /\ ~vfirst.raised
    /\ vsecond' = validate_output(vfirst.payload, vcreate)
    /\ vpc' = "revalidated"
    /\ UNCHANGED <<vsink, vmap, vcreate, vext, vin, vfirst, vhanded, vpayload>>
    /\ UNCHANGED <<reqVars, runVars, cacheVars, resVars, lookVars, pickVars, conVars, phoneVars>>

(***************************************************************************)
(* ContactsSink over a sequence of records: the contact type, the          *)
(* campaigns and topics it keeps on the instance, and the assignments      *)
(* upsert_record makes after the write.                                    *)
(***************************************************************************)

MaxContactRecords == 2

CampaignLists == {<<>>, <<"c1">>, <<"c1", "c2">>}

TopicLists == {<<>>, <<"t1">>, <<"t1", "t2">>}

\* ident: the record carries an id ("id"), or it does not and its email is
\* found ("match") or not found ("none") in Salesforce. custom: the record
\* has custom_fields (a field of CampaignMember that is createable).
ContactRecords ==
    [lead : BOOLEAN, ident : {"id", "match", "none"}, campaigns : CampaignLists,
     lists : {<<>>, <<"c2">>}, tags : TopicLists, custom : BOOLEAN]

\* The custom fields of a record that belong to CampaignMember.
MemberFields == {"Member__c"}

NoRecord ==
    [lead |-> FALSE, ident |-> "none", campaigns |-> <<>>, lists |-> <<>>, tags |-> <<>>,
     custom |-> FALSE]

\* lines 63-68
ContactTypeOf(rec) == IF rec.lead THEN "Lead" ELSE "Contact"

SinkOf(t) == IF t = "Lead" THEN "Leads" ELSE "Contacts"

\* What the POST of a CampaignMember or of a TopicAssignment does: it
\* returns an id, it is answered "Already a campaign member." (which
\* ContactsSink.validate_response lets through) or DUPLICATE_VALUE, or it raises.
AssignOutcomes == {"id", "already", "FatalAPIError"}

AssignOracles(names) == [names -> AssignOutcomes]

Assigned(t, raised) == [trace |-> t, raised |-> raised]

\* assign_to_campaign(contact_id, campaigns, payload) from campaign i on;
\* exists: the query finds the campaign, else it is created first.
RECURSIVE assign_to_campaign(_, _, _, _, _, _, _)
assign_to_campaign(kind, list, payload, exists, member, i, t) ==
    IF i > Len(list) THEN Assigned(t, FALSE)
    ELSE LET c == list[i]
             t1 == Append(t, Rq("GET", <<"query", "Campaign", c>>, "id"))
             t2 == IF exists THEN t1 ELSE Append(t1, Rq("POST", <<"sobjects/Campaign">>, "id"))
             body == {"CampaignId", IF kind = "Contact" THEN "ContactId" ELSE "LeadId"}
                        \cup payload
             t3 == Append(t2, RqP("POST", <<"sobjects/CampaignMember", c>>, member[c], body))
         IN
    IF member[c] = "already" THEN Assigned(t3, FALSE)       \* line 423: return
    ELSE IF member[c] = "id" THEN assign_to_campaign(kind, list, payload, exists, member, i + 1, t3)
    ELSE Assigned(t3, TRUE)

\* assign_to_topic(contact_id, topics) from topic i on.
RECURSIVE assign_to_topic(_, _, _, _, _)
assign_to_topic(list, exists, assign, i, t) ==
    IF i > Len(list) THEN Assigned(t, FALSE)
    ELSE LET c == list[i]
             t1 == Append(t, Rq("GET", <<"query", "Topic", c>>, "id"))
             t2 == IF exists THEN t1 ELSE Append(t1, Rq("POST", <<"sobjects/Topic">>, "id"))
             t3 == Append(t2, Rq("POST", <<"sobjects/TopicAssignment", c>>, assign[c]))
         IN
    IF assign[c] = "already" THEN Assigned(t3, FALSE)       \* line 366-367: return
    ELSE IF assign[c] = "id" THEN assign_to_topic(list, exists, assign, i + 1, t3)
    ELSE Assigned(t3, TRUE)

\* ContactsSink.preprocess_record, as far as it sets the contact type, reads
\* the description and keeps campaigns and topics. oD: the describe request
\* of the first get_pickable.
PreprocessContact(rec, oD) ==
    /\ kpc \in {"ready", "done"}
    /\ kn < MaxContactRecords
    /\ kn' = kn + 1
    /\ krec' = rec
    /\ kreqs' = <<>>
    /\ kout' = Ret(None, FALSE, None)
    /\ contact_type' = ContactTypeOf(rec)
    /\ (descOf # None => oD = "id")
    /\ IF descOf = None /\ IsRaise(oD)
       THEN \* get_pickable raises at line 70
            /\ kpc' = "aborted"
            /\ kdesc' = None
            /\ kmap' = {}
            /\ UNCHANGED <<descOf, campaigns, topics>>
       ELSE /\ descOf' = IF descOf = None THEN ContactTypeOf(rec) ELSE descOf
            /\ kdesc' = descOf'
            \* lines 113-123
            /\ topics' = IF rec.tags # <<>> THEN rec.tags ELSE topics
            /\ campaigns' = IF rec.campaigns # <<>> THEN rec.campaigns
                            ELSE IF campaigns = <<>> /\ rec.lists # <<>> THEN rec.lists
                            ELSE campaigns
            /\ IF rec.custom
               THEN \* line 178: process_custom_fields takes no exclude_fields
                    /\ kpc' = "aborted"
                    /\ kmap' = {}
               ELSE /\ kpc' = "mapped"
                    /\ kmap' = DOMAIN validate_output(
                                   [k \in {"LastName"} |-> Str(<<"a">>)], {"LastName"}).payload
                                 \cup (IF rec.ident = "none" THEN {} ELSE {"Id"})
    /\ UNCHANGED <<reqVars, runVars, cacheVars, resVars, lookVars, pickVars, valVars, phoneVars>>

\* ContactsSink.upsert_record under process_record: the write, then the
\* assignments of self.campaigns and self.topics.
ProcessContact(oI, oP, exists, member, assign) ==
    /\ kpc = "mapped"
    /\ kpc' = "done"
    /\ LET u == UpsertContacts(SinkOf(contact_type), kmap, TRUE, "id", "id", oI, oP)
           \* record.pop("campaign_member_fields", {})
           campaign_members_fields ==
                IF "campaign_member_fields" \in kmap THEN MemberFields ELSE {}
           a == IF u.ret.kind = "return" /\ campaigns # <<>>
                THEN assign_to_campaign(contact_type, campaigns, campaign_members_fields,
                                        exists, member, 1, u.trace)
                ELSE Assigned(u.trace, FALSE)
           b == IF u.ret.kind = "return" /\ ~a.raised /\ topics # <<>>
                THEN assign_to_topic(topics, exists, assign, 1, a.trace)
                ELSE Assigned(a.trace, a.raised)
       IN /\ kreqs' = b.trace
          /\ kout' = IF b.raised THEN Exc("FatalAPIError") ELSE u.ret
    /\ UNCHANGED <<campaigns, topics, contact_type, descOf, kn, krec, kdesc, kmap>>
    /\ UNCHANGED <<reqVars, runVars, cacheVars, resVars, lookVars, pickVars, valVars, phoneVars>>

(***************************************************************************)
(* The phone numbers of a contact or a company. The number of a phone is   *)
(* its position in the list.                                               *)
(***************************************************************************)

MaxPhones == 5

PhoneSinks == {"Contacts", "Company"}

PhoneTypes == {"primary", "mobile", "fax", "other"}

PhoneLists == UNION {[1..n -> PhoneTypes] : n \in 0..MaxPhones}

\* list(phone_types.keys()), and the type each slot stands for.
PhoneSlots(k) ==
    IF k = "Company" THEN <<"Phone", "Fax">>
    ELSE <<"Phone", "OtherPhone", "MobilePhone", "HomePhone">>

PhoneTypeOf(slot) ==
    CASE slot = "Phone" -> "primary"
      [] slot = "OtherPhone" -> "secondary"
      [] slot = "MobilePhone" -> "mobile"
      [] slot = "HomePhone" -> "home"
      [] slot = "Fax" -> "fax"

Typed(k, type) == {j \in 1..Len(PhoneSlots(k)) : PhoneTypeOf(PhoneSlots(k)[j]) = type}

\* The loop over enumerate(phones) from phone i on: the positional slot is
\* read first, list(...)[i] raising IndexError past the last slot, then the
\* slot of the phone's type replaces it.
RECURSIVE MapPhones(_, _, _, _)
MapPhones(k, phones, i, m) ==
    IF i > Len(phones) THEN [raised |-> None, slots |-> m]
    ELSE IF i > Len(PhoneSlots(k)) THEN [raised |-> "IndexError", slots |-> m]
    ELSE LET typed == Typed(k, phones[i])
             slot == IF typed # {} THEN PhoneSlots(k)[CHOOSE j \in typed : TRUE]
                     ELSE PhoneSlots(k)[i]
         IN MapPhones(k, phones, i + 1,
                      [x \in DOMAIN m \cup {slot} |-> IF x = slot THEN i ELSE m[x]])

PreprocessPhones ==
    /\ hpc = "ready"
    /\ hpc' = "done"
    /\ hmap' = MapPhones(hsink, hphones, 1, EmptyMap)
    /\ UNCHANGED <<hsink, hphones>>
    /\ UNCHANGED <<reqVars, runVars, cacheVars, resVars, lookVars, pickVars, valVars, conVars>>

(***************************************************************************)
(* The specifications. Each one runs one part of the program and holds the *)
(* variables of the other parts at rest.                                   *)
(***************************************************************************)

ReqIdle ==
    /\ call = [method |-> None, path |-> None, sink |-> "Base", payload |-> << >>]
    /\ stack = <<>>
    /\ attempts = 0
    /\ strips = FALSE
    /\ sent = [method |-> None, path |-> None, payload |-> << >>]
    /\ lastResp = NoResponse
    /\ result = Returned

RunIdle ==
    /\ sink = "Activities"
    /\ pc = "aborted"
    /\ nrec = 0
    /\ mapping = {}
    /\ known = FALSE
    /\ cached = FALSE
    /\ reqs = <<>>
    /\ bookmarks = <<>>
    /\ summary = [success |-> 0, fail |-> 0, updated |-> 0, existing |-> 0]
    /\ read_only_fields = [st \in Streams |-> {}]
    /\ quotaSeen = FALSE
    /\ reqAfterQuota = FALSE
    /\ lastErr = NoErr

CacheIdle ==
    /\ csink = "Company"
    /\ cpc = "aborted"
    /\ crec = 0
    /\ create_custom_fields = FALSE
    /\ memo = NoMemo
    /\ fieldsProp = FALSE
    /\ remote = {}
    /\ created = {}
    /\ fetches = 0
    /\ staleUse = FALSE

ResolverIdle ==
    /\ rsink = "Contacts"
    /\ rcfg = [lookup |-> FALSE, by_email |-> TRUE]
    /\ rrec = [id |-> FALSE, lookup_value |-> FALSE, external_id |-> FALSE, email |-> FALSE]
    /\ rremote = [lookup |-> FALSE, external_id |-> FALSE, email |-> FALSE]
    /\ rpc = "resolved"
    /\ queried = {}
    /\ decided = "create"

LookupIdle ==
    /\ lsink = "Contacts"
    /\ lcfg = [lookup |-> FALSE, lookup_method |-> "sequential", by_email |-> TRUE,
               only_upsert_empty_fields |-> FALSE]
    /\ lrec = [id |-> FALSE, external_id |-> FALSE, email |-> FALSE, fields |-> {}]
    /\ lrem = [lookup |-> FALSE, external_id |-> FALSE, email |-> FALSE, populated |-> {}]
    /\ lpc = "written"
    /\ lout = Out({}, {}, "create", "none", None)

PickIdle ==
    /\ pcand = NoneValue
    /\ plabels = <<>>
    /\ phas = FALSE
    /\ pdefault = NoneValue
    /\ pfirst = FALSE
    /\ pcreate = FALSE
    /\ ppc = "done"
    /\ pres = [raised |-> FALSE, value |-> NoneValue]
    /\ ppayload = << >>

ValidateIdle ==
    /\ vsink = "Contacts"
    /\ vmap = EmptyMap
    /\ vcreate = {}
    /\ vext = None
    /\ vpc = "revalidated"
    /\ vin = EmptyMap
    /\ vfirst = [raised |-> FALSE, payload |-> EmptyMap]
    /\ vsecond = [raised |-> FALSE, payload |-> EmptyMap]
    /\ vhanded = FALSE
    /\ vpayload = EmptyMap

ContactsIdle ==
    /\ campaigns = <<>>
    /\ topics = <<>>
    /\ contact_type = "Contact"
    /\ descOf = None
    /\ kpc = "aborted"
    /\ kn = 0
    /\ krec = NoRecord
    /\ kdesc = None
    /\ kmap = {}
    /\ kreqs = <<>>
    /\ kout = Ret(None, FALSE, None)

PhonesIdle ==
    /\ hsink = "Contacts"
    /\ hphones = <<>>
    /\ hpc = "done"
    /\ hmap = [raised |-> None, slots |-> EmptyMap]

NextReq == (\E r \in Responses : HttpAttempt(r)) /\ UNCHANGED <<runVars, cacheVars, resVars, lookVars, pickVars, valVars, conVars, phoneVars>>

InitReq == ReqCall /\ RunIdle /\ CacheIdle /\ ResolverIdle /\ LookupIdle /\ PickIdle /\ ValidateIdle /\ ContactsIdle
               /\ PhonesIdle

SpecReq == InitReq /\ [][NextReq]_vars

\* The remote answers every request that is sent.
SpecReqFair == SpecReq /\ WF_vars(NextReq)

InitRun ==
    /\ ReqIdle
    /\ PhonesIdle
    /\ ContactsIdle
    /\ ValidateIdle
    /\ PickIdle
    /\ LookupIdle
    /\ CacheIdle
    /\ ResolverIdle
    /\ sink \in Sinks
    /\ pc = "ready"
    /\ nrec = 0
    /\ mapping = {}
    /\ known = FALSE
    /\ cached = FALSE
    /\ reqs = <<>>
    /\ bookmarks = <<>>
    /\ summary = [success |-> 0, fail |-> 0, updated |-> 0, existing |-> 0]
    /\ read_only_fields = [st \in Streams |-> {}]
    /\ quotaSeen = FALSE
    /\ reqAfterQuota = FALSE
    /\ lastErr = NoErr

NextRun ==
    \/ \E rec \in InputRecords, o \in PreprocessOutcomes : PreprocessRecord(rec, o)
    \* an oracle that is not consulted is fixed
    \/ \E oD \in (IF cached \/ known THEN {"id"} ELSE ReadOutcomes),
          oE \in (IF known \/ mapping \cap ExternalIds = {} THEN {"id"} ELSE AllOutcomes),
          oI \in (IF known \/ "Id" \notin mapping THEN {"id"} ELSE AllOutcomes),
          oP \in (IF known THEN {"id"} ELSE AllOutcomes),
          oP2 \in (IF known \/ sink # "Fallback" THEN {"id"} ELSE AllOutcomes) :
            ProcessRecord(oD, oE, oI, oP, oP2)

SpecRun == InitRun /\ [][NextRun]_vars

InitCache ==
    /\ ReqIdle
    /\ PhonesIdle
    /\ ContactsIdle
    /\ ValidateIdle
    /\ PickIdle
    /\ LookupIdle
    /\ RunIdle
    /\ ResolverIdle
    /\ csink \in CacheSinks
    /\ cpc = "ready"
    /\ crec = 0
    /\ create_custom_fields \in BOOLEAN
    /\ memo = NoMemo
    /\ fieldsProp = FALSE
    /\ remote \in SUBSET CustomFields
    /\ created = {}
    /\ fetches = 0
    /\ staleUse = FALSE

NextCache ==
    \E cfs \in CustomFieldLists, o1, oF, o2 \in {"ok", "raise"}, fail \in Fails :
        PreprocessSchema(cfs, o1, oF, fail, o2)

SpecCache == InitCache /\ [][NextCache]_vars

InitResolve ==
    /\ ReqIdle
    /\ PhonesIdle
    /\ ContactsIdle
    /\ ValidateIdle
    /\ PickIdle
    /\ LookupIdle
    /\ RunIdle
    /\ CacheIdle
    /\ rsink \in ResolverSinks
    /\ rcfg \in ResolverConfigs
    /\ rrec \in ResolverRecords
    /\ rremote \in Remotes
    /\ rpc = "ready"
    /\ queried = {}
    /\ decided = None

NextResolve == Resolve

SpecResolve == InitResolve /\ [][NextResolve]_vars

InitLookup ==
    /\ ReqIdle
    /\ PhonesIdle
    /\ ContactsIdle
    /\ ValidateIdle
    /\ PickIdle
    /\ RunIdle
    /\ CacheIdle
    /\ ResolverIdle
    /\ lsink \in LookupSinks
    /\ lcfg \in LookupConfigs
    /\ lrec \in LookupRecords
    /\ lrem \in LookupRemotes
    /\ lpc = "ready"
    /\ lout = Out({}, {}, None, None, None)

NextLookup == LookupAndWrite

SpecLookup == InitLookup /\ [][NextLookup]_vars

InitPick ==
    /\ ReqIdle
    /\ PhonesIdle
    /\ ContactsIdle
    /\ ValidateIdle
    /\ RunIdle
    /\ CacheIdle
    /\ ResolverIdle
    /\ LookupIdle
    /\ pcand \in Candidates
    /\ plabels \in LabelLists
    /\ phas \in BOOLEAN
    /\ pdefault \in {NoneValue, Str(<<"b">>)}
    /\ pfirst \in BOOLEAN
    /\ pcreate \in BOOLEAN
    /\ ppc = "ready"
    /\ pres = [raised |-> FALSE, value |-> NoneValue]
    /\ ppayload = << >>

NextPick == MapPicklist

SpecPick == InitPick /\ [][NextPick]_vars

InitValidate ==
    /\ ReqIdle
    /\ PhonesIdle
    /\ ContactsIdle
    /\ RunIdle
    /\ CacheIdle
    /\ ResolverIdle
    /\ LookupIdle
    /\ PickIdle
    /\ vsink \in ValidateSinks
    /\ vmap \in Mappings
    /\ vcreate \in Createables
    /\ vext \in ExternalIdNames
    /\ vpc = "ready"
    /\ vin = EmptyMap
    /\ vfirst = [raised |-> FALSE, payload |-> EmptyMap]
    /\ vsecond = [raised |-> FALSE, payload |-> EmptyMap]
    /\ vhanded = FALSE
    /\ vpayload = EmptyMap

NextValidate == PreprocessContacts \/ PreprocessDeals \/ Revalidate

SpecValidate == InitValidate /\ [][NextValidate]_vars

InitContacts ==
    /\ ReqIdle
    /\ PhonesIdle
    /\ RunIdle
    /\ CacheIdle
    /\ ResolverIdle
    /\ LookupIdle
    /\ PickIdle
    /\ ValidateIdle
    /\ campaigns = <<>>
    /\ topics = <<>>
    /\ contact_type = "Contact"
    /\ descOf = None
    /\ kpc = "ready"
    /\ kn = 0
    /\ krec = NoRecord
    /\ kdesc = None
    /\ kmap = {}
    /\ kreqs = <<>>
    /\ kout = Ret(None, FALSE, None)

NextContacts ==
    \/ \E rec \in ContactRecords, oD \in {"id", "FatalAPIError"} : PreprocessContact(rec, oD)
    \* an oracle that is not consulted is fixed
    \/ \E oI \in (IF "Id" \in kmap THEN {"id", "204", "FatalAPIError"} ELSE {"id"}),
          oP \in (IF "Id" \in kmap THEN {"id"} ELSE {"id", "204", "list", "FatalAPIError"}),
          exists \in (IF campaigns = <<>> /\ topics = <<>> THEN {TRUE} ELSE BOOLEAN),
          member \in AssignOracles(Range(campaigns)),
          assign \in AssignOracles(Range(topics)) :
            ProcessContact(oI, oP, exists, member, assign)

SpecContacts == InitContacts /\ [][NextContacts]_vars

InitPhones ==
    /\ ReqIdle
    /\ RunIdle
    /\ CacheIdle
    /\ ResolverIdle
    /\ LookupIdle
    /\ PickIdle
    /\ ValidateIdle
    /\ ContactsIdle
    /\ hsink \in PhoneSinks
    /\ hphones \in PhoneLists
    /\ hpc = "ready"
    /\ hmap = [raised |-> None, slots |-> EmptyMap]

NextPhones == PreprocessPhones

SpecPhones == InitPhones /\ [][NextPhones]_vars

(***************************************************************************)
(* Claims                                                                  *)
(***************************************************************************)

\* C1: for a record that carries an explicit Id, every write request that
\* upsert_record issues is a PATCH whose path contains that id, and none is a
\* POST, whatever the remote answers.
C1_Original ==
    [][(pc = "mapped" /\ ~known /\ "Id" \in mapping)
          => \A i \in 1..Len(reqs') :
                /\ reqs'[i].method = "PATCH"
                /\ IdVal \in Range(reqs'[i].path)]_vars

\* C2: once a response has reported usage above quota_percent_total the run
\* is aborted: the quota error is in no record's outcome entry and no request
\* is issued afterwards.
C2_Original ==
    quotaSeen =>
        /\ pc = "aborted"
        /\ ~reqAfterQuota
        /\ \A i \in 1..Len(bookmarks) : bookmarks[i].error # Quota

\* C3: an error other than quota-exceeded raised while mapping, resolving or
\* writing a record does not abort the stream, and the record gets exactly one
\* outcome entry, with success = FALSE and the error text.
C3_Original ==
    (lastErr.exc \notin {None, Quota} /\ pc # "mapped") =>
        /\ pc = "ready"
        /\ Len(bookmarks) = nrec
        /\ (lastErr.phase = "upsert" =>
               /\ ~bookmarks[nrec].success
               /\ bookmarks[nrec].error # None)

\* C8: between two invalidations of the schema cache the describe endpoint of
\* the sink's object type is fetched at most once.
C8_Original == fetches <= 1

\* C9: once the provisioner has created a custom field, no memoized
\* description fetched before the creation remains, and no schema read is
\* served from one.
C9_Original ==
    /\ (memo.has => created \subseteq memo.custom)
    /\ ~staleUse

\* The resolution the priority order prescribes: the first of explicit id,
\* lookup fields, external id, email search that matches, else a create.
FirstMatch ==
    IF rrec.id THEN "id"
    ELSE IF rcfg.lookup /\ rrec.lookup_value /\ rremote.lookup THEN "lookup"
    ELSE IF rrec.external_id /\ rremote.external_id THEN "external_id"
    ELSE IF rrec.email /\ rremote.email /\ (rsink = "Contacts" \/ rcfg.by_email) THEN "email"
    ELSE "create"

\* C10: the resolver decides by the first method, in the order id, lookup
\* fields, external id, email, that yields a match, and creates only when none
\* of them matches.
C10_Original == rpc = "resolved" => decided = FirstMatch

\* C11: when lookup fields are configured, the record holds values for them
\* and the lookup predicate matches an existing object, the record is written
\* as a PATCH addressed to that object, in the unified sinks and the fallback.
C11_Original ==
    (lpc = "written" /\ lcfg.lookup /\ ~lrec.id /\ DataFields \subseteq lrec.fields
        /\ lrem.lookup /\ ~lcfg.only_upsert_empty_fields)
    => lout.write = "PATCH_ID"

\* C12: with lookup_method = all, no lookup query is issued for a record that
\* lacks a value for one of the configured lookup fields.
C12_Original ==
    (lpc = "written" /\ lsink = "Fallback" /\ lcfg.lookup /\ lcfg.lookup_method = "all"
        /\ ~(DataFields \subseteq lrec.fields))
    => "lookup" \notin lout.queried

\* C13: with only_upsert_empty_fields, a record resolved to an existing object
\* is written without the fields that object already has a value in.
C13_Original ==
    (lpc = "written" /\ lcfg.only_upsert_empty_fields /\ lout.by # "create")
    => lout.payload \cap lrem.populated = {}

\* C14: the only_upsert_empty_fields filter keeps the key the record was
\* resolved by, so the record is still written as an update of that object.
C14_Original ==
    (lpc = "written" /\ lcfg.only_upsert_empty_fields) =>
        /\ (lout.by = "external_id" /\ ~lrec.id /\ lrec.fields \ lrem.populated # {}
               => "Ext__c" \in lout.payload /\ lout.write = "PATCH_EXT")
        /\ (lout.by \in {"id", "email", "lookup"} => "Id" \in lout.payload)

\* C15: a deal that lacks a title, a stage or a close date gets an outcome
\* entry with success = FALSE and the validation error, and no write request
\* is sent for it.
C15_Original ==
    [][(pc = "mapped" /\ ~known /\ lastErr = [phase |-> "preprocess", exc |-> "InvalidDealRecord"])
          => /\ reqs' = <<>>
             /\ ~bookmarks'[Len(bookmarks')].success
             /\ bookmarks'[Len(bookmarks')].error # None]_vars

\* The candidate equals an active label up to case and non-word characters.
MatchesLabel(i) ==
    /\ "str" \in DOMAIN pcand
    /\ Normalize(plabels[i]) = Normalize(pcand.str)

MatchesSome == \E i \in 1..Len(plabels) : MatchesLabel(i)

\* C16: a picklist value that matches no active option, with no default and
\* without select_first, leaves its field out of the validated payload.
C16_DroppedOnNoMatch ==
    (ppc = "done" /\ phas /\ ~pfirst /\ pdefault = NoneValue /\ ~MatchesSome)
        => "Type" \notin DOMAIN ppayload

C16_Witness ==
    /\ ppc = "done" /\ phas /\ ~pfirst /\ pdefault = NoneValue /\ ~MatchesSome
    /\ pcreate
    /\ plabels # <<>>
    /\ "str" \in DOMAIN pcand /\ pcand.str # <<>>
    /\ DOMAIN ppayload = {"Name"}

\* C17 as stated: a candidate that equals an active label up to case and
\* non-alphanumeric characters is mapped to such a label.
C17_Original ==
    (ppc = "done" /\ phas /\ MatchesSome)
        => \E i \in 1..Len(plabels) : MatchesLabel(i) /\ pres.value = Str(plabels[i])

\* C18 as stated: with select_first and no match, the value returned is one
\* of the active labels.
C18_Original ==
    (ppc \in {"done", "raised"} /\ phas /\ pfirst /\ plabels # <<>> /\ ~MatchesSome)
        => /\ ~pres.raised
           /\ pres.value \in {Str(l) : l \in Range(plabels)}

\* C19 as stated: a payload handed to upsert_record holds only fields of
\* the object's description (here the creatable ones and Id) or custom
\* fields, whichever sink built it and whenever the field was added.
C19_Original ==
    (vpc \in {"validated", "revalidated"} /\ vhanded)
        => DOMAIN vpayload \subseteq vcreate \cup {"Id"} \cup CustomNames

AllowedOnly(m) == DOMAIN m \subseteq vcreate \cup {"Id"} \cup CustomNames

NonEmptyValues(m) == \A k \in DOMAIN m : m[k] \notin {NoneValue, Str(<<>>)}

\* C20 as stated: validate_output is idempotent, and a mapping of allowed
\* fields with non-empty values is returned with the same set of fields.
C20_Original ==
    /\ vpc = "revalidated" => vsecond = vfirst
    /\ (vpc \in {"validated", "revalidated"} /\ AllowedOnly(vin) /\ NonEmptyValues(vin))
           => ~vfirst.raised /\ DOMAIN vfirst.payload = DOMAIN vin

\* C20, amended: the same, for a description with at least one creatable
\* standard field; with none, validate_output raises
\* NoCreatableFieldsException whatever the mapping.
C20_IdempotentWhenCreatable ==
    /\ vpc = "revalidated" => vsecond = vfirst
    /\ (vpc \in {"validated", "revalidated"} /\ vcreate # {}
            /\ AllowedOnly(vin) /\ NonEmptyValues(vin))
           => ~vfirst.raised /\ DOMAIN vfirst.payload = DOMAIN vin

C20_Witness ==
    /\ vpc = "revalidated"
    /\ vcreate # {}
    /\ AllowedOnly(vin) /\ NonEmptyValues(vin)
    /\ DOMAIN vin = {"Name", "Id", "X__c"}
    /\ vin["Name"] = Datetime(TRUE)
    /\ vfirst.payload["Name"] = FormatDatetime(TRUE)
    /\ vsecond = vfirst

Counters == {"success", "fail", "updated", "existing"}

Total(s) == s.success + s.fail + s.updated + s.existing

\* C29: every process_record call increments exactly one counter by one and
\* appends exactly one outcome entry, so the counters add up to the number
\* of outcome entries, also when upsert_record raised or returned nothing.
C29_OneCounterOneEntry ==
    /\ [](Total(summary) = Len(bookmarks))
    /\ [][pc = "mapped" =>
            /\ Len(bookmarks') = Len(bookmarks) + 1
            /\ SubSeq(bookmarks', 1, Len(bookmarks)) = bookmarks
            /\ \E f \in Counters : summary' = [summary EXCEPT ![f] = @ + 1]]_vars

C29_Witness ==
    /\ pc = "ready"
    /\ Len(bookmarks) = 2
    /\ Total(summary) = 2
    /\ \E i, j \in 1..2 :
          /\ bookmarks[i].error = "TypeError"
          /\ bookmarks[j].error = "FatalAPIError"

\* C30: a record whose hash is already in the run state is not written
\* again: process_record sends nothing for it and increments the existing
\* counter only.
C30_DuplicateNotWritten ==
    [][(pc = "mapped" /\ known) =>
            /\ reqs' = <<>>
            /\ UNCHANGED <<cached, quotaSeen, reqAfterQuota>>
            /\ summary' = [summary EXCEPT !.existing = @ + 1]]_vars

C30_Witness ==
    /\ pc = "ready"
    /\ summary.existing = 1
    /\ Total(summary) = 2
    /\ reqs = <<>>

IsObjectWrite(q, m) == q.method = m /\ q.path[1] = Endpoint(SinkOf(contact_type))

ObjectWrites(m) == {i \in 1..Len(kreqs) : IsObjectWrite(kreqs[i], m)}

\* C21 as stated: a contact without id whose email matches nothing, and that
\* carries no campaigns, lists or tags, is created by exactly one POST and no
\* PATCH, and an id in the response makes its outcome a success with that id.
C21_Original ==
    (kpc = "done" /\ krec.ident = "none"
        /\ krec.campaigns = <<>> /\ krec.lists = <<>> /\ krec.tags = <<>>)
        => /\ Cardinality(ObjectWrites("POST")) = 1
           /\ ObjectWrites("PATCH") = {}
           /\ \A i \in ObjectWrites("POST") :
                 kreqs[i].out = "id" => kout.success /\ kout.id = NewId

IsAssignment(q, what) == q.method = "POST" /\ q.path[1] = what

\* C25 as stated: a contact record with campaigns and a createable custom
\* field of CampaignMember gets that field into the CampaignMember payload
\* of each membership that is created for it.
C25_Original ==
    (kpc \in {"done", "aborted"} /\ kdesc # None /\ krec.custom /\ krec.campaigns # <<>>)
        => \E i \in 1..Len(kreqs) :
              /\ IsAssignment(kreqs[i], "sobjects/CampaignMember")
              /\ MemberFields \subseteq kreqs[i].payload

\* C26 as stated: the description a record is mapped with is the one of the
\* object type the record is written to.
C26_Original == kpc \in {"mapped", "done"} => kdesc = contact_type

\* C27 as stated: the campaign and topic requests made for a record name
\* only campaigns, lists and tags of that record.
C27_Original ==
    kpc = "done" =>
        \A i \in 1..Len(kreqs) :
            /\ (kreqs[i].path[1] \in {"sobjects/CampaignMember", "sobjects/Campaign"}
                    \/ (kreqs[i].path[1] = "query" /\ kreqs[i].path[2] = "Campaign"))
                  => krec.campaigns # <<>> \/ krec.lists # <<>>
            /\ IsAssignment(kreqs[i], "sobjects/CampaignMember")
                  => kreqs[i].path[2] \in Range(krec.campaigns) \cup Range(krec.lists)
            /\ IsAssignment(kreqs[i], "sobjects/TopicAssignment")
                  => kreqs[i].path[2] \in Range(krec.tags)

\* C28 as stated: an assignment answered "already a member" does not keep
\* the campaigns, or topics, later in the list from being attempted.
C28_Original ==
    kpc = "done" =>
        \A i \in 1..Len(kreqs) :
            /\ (IsAssignment(kreqs[i], "sobjects/CampaignMember") /\ kreqs[i].out = "already")
                  => \A c \in Range(campaigns) :
                        \E j \in 1..Len(kreqs) :
                            /\ IsAssignment(kreqs[j], "sobjects/CampaignMember")
                            /\ kreqs[j].path[2] = c
            /\ (IsAssignment(kreqs[i], "sobjects/TopicAssignment") /\ kreqs[i].out = "already")
                  => \A c \in Range(topics) :
                        \E j \in 1..Len(kreqs) :
                            /\ IsAssignment(kreqs[j], "sobjects/TopicAssignment")
                            /\ kreqs[j].path[2] = c

\* C22 as stated: an update PATCH answered 204 makes the record a success,
\* and is the last write request of the record.
C22_Original ==
    (pc = "ready" /\ reqs # <<>>) =>
        \A i \in 1..Len(reqs) :
            (reqs[i].method = "PATCH" /\ reqs[i].out = "204")
                => /\ i = Len(reqs)
                   /\ bookmarks[Len(bookmarks)].success

PostsIn(t) == {i \in 1..Len(t) : t[i].method = "POST"}

C23_Original ==
    hpc = "done" =>
        /\ hmap.raised = None
        /\ \A i \in 1..Len(hphones) :
              IF Typed(hsink, hphones[i]) # {}
              THEN \A j \in Typed(hsink, hphones[i]) : PhoneSlots(hsink)[j] \in DOMAIN hmap.slots
              ELSE i <= Len(PhoneSlots(hsink)) => PhoneSlots(hsink)[i] \in DOMAIN hmap.slots

LastWasStripped ==
    /\ call.method = "PATCH"
    /\ lastResp.status = 400
    /\ lastResp.body = "INVALID_FIELD"

Is4xxNot429(r) == r.status >= 400 /\ r.status < 500 /\ r.status # 429

ContactsTolerated == {"ALREADY_MEMBER", "NOT_FOUND", "NO_COLUMN"}

C6_Original == attempts <= max_tries

\* C6 amended: every _request invocation runs its body at most max_tries times;
\* a call without stripping re-issue makes at most max_tries attempts, and the
\* RetriableAPIError is surfaced after the last one.
C6_BoundedRetries ==
    /\ \A i \in 1..Len(stack) : stack[i].tries <= max_tries
    /\ (~strips => attempts <= max_tries)
    /\ (~strips /\ attempts = max_tries /\ (lastResp.status = 429 \/ lastResp.status >= 500)
            => result = Raised("RetriableAPIError", None))

C6_Witness ==
    /\ ~strips
    /\ attempts = max_tries
    /\ result = Raised("RetriableAPIError", None)

\* C7: every request_api call ends, returning or raising, whatever the remote
\* answers, given that every request sent is answered.
C7_Termination == <>(result.kind # "pending")

\* The remote answered every PATCH with INVALID_FIELD_FOR_INSERT_UPDATE, naming
\* a field the payload does not carry: the call ended with RecursionError.
C7_Witness ==
    /\ result = Raised("RecursionError", None)
    /\ Len(stack) = MaxDepth
    /\ \A i \in 1..Len(stack) : stack[i].payload = call.payload /\ stack[i].tries = 1
    /\ DOMAIN call.payload # {}

====
